---- MODULE Spec2Model ----
(***************************************************************************)
(* UCP: a reliable, ordered byte stream over UDP (src/src/ucp.rs).         *)
(*                                                                         *)
(* Two UcpStream objects, the connecting one ("c") and the accepting one   *)
(* ("s"), exchange datagrams over a network that may lose, duplicate and   *)
(* reorder them.  Every method of UcpStream is an operator on a stream     *)
(* record; the ones that emit datagrams work on a task (see Task): the     *)
(* stream, the datagrams emitted so far, the callbacks invoked and the     *)
(* emit at which the caller abandons the call, if it does, so that a       *)
(* handler and every call it makes is one atomic step.                     *)
(***************************************************************************)
EXTENDS Integers, Sequences, FiniteSets, TLC

\* ------------------------------------------------------------ constants
CMD_SYN == 128
CMD_SYN_ACK == 129
CMD_ACK == 130
CMD_DATA == 131
CMD_HEARTBEAT == 132
CMD_HEARTBEAT_ACK == 133
UCP_PACKET_META_SIZE == 29
DEFAULT_WINDOW == 512
DEFAULT_RTO == 100
HEARTBEAT_INTERVAL_MILLIS == 2500
UCP_STREAM_BROKEN_MILLIS == 20000
SKIP_RESEND_TIMES == 2
\* The drivers call update when 10 ms have passed since the last call.
DRIVER_TICK_MILLIS == 10

\* ------------------------------------------------------------ bounds
\* UcpPacket.buf is [u8; 1400]; the model keeps the 29-byte header and
\* shrinks the buffer so that a packet carries PayloadCap payload bytes: two
\* (seq, timestamp) pairs and a byte.
PayloadCap == 17
BUF_SIZE == UCP_PACKET_META_SIZE + PayloadCap
\* u32 fields (seq, una, timestamp, rto) are kept modulo 2^WordBits.
WordBits == 16
\* The wall clock advances by TickMillis, at most MaxTicks times.
TickMillis == 100
MaxTicks == 2
\* Application calls of send: over both streams from construction on
\* (MaxSend), and by the client between two ESTABLISHED streams (DataSend).
MaxSend == 1
DataSend == 2
\* local_window of the two streams is drawn from 1..MaxWindow.
MaxWindow == 2
\* Deliveries that leave the datagram in flight (the network duplicates it).
MaxDup == 1
\* The calls of on_broken are counted up to MaxBroken.
MaxBroken == 2

Peers == {"c", "s"}
Remote(p) == IF p = "c" THEN "s" ELSE "c"
SessionIds == {7}
Windows == 1..MaxWindow
SendLens == {1, PayloadCap + 1}
RecvLens == {PayloadCap \div 2, 2 * PayloadCap}

VARIABLES
    ucp,          \* ucp[p]: the UcpStream of peer p
    net,          \* datagrams in flight: sent, not yet delivered or lost
    now,          \* wall clock (get_time), in milliseconds
    app_sent,     \* app_sent[p]: number of bytes passed to p.send so far
    app_recv,     \* app_recv[p]: bytes returned by p.recv so far, in order
    send_calls,   \* number of send calls made so far
    early_send,   \* early_send[p]: p.send was called before p was ESTABLISHED
    dups,         \* number of duplicating deliveries so far
    lost,         \* number of instants counted as ending with datagrams lost
    updated,      \* updated[p]: the driver has called p.update at this instant
    tally         \* tally[p]: the calls of on_broken made by p so far, and
                  \* the handler calls of p abandoned at an emit

vars == <<ucp, net, now, app_sent, app_recv, send_calls, early_send, dups,
          lost, updated, tally>>

\* ------------------------------------------------------------ arithmetic
Modulus == 2 ^ WordBits
U32(x) == x % Modulus
I32(x) == LET r == x % Modulus IN IF r >= Modulus \div 2 THEN r - Modulus ELSE r
Min(a, b) == IF a <= b THEN a ELSE b

\* ------------------------------------------------------------ UcpPacket
\* The payload is kept as the u32 words written first (payload_write_u32)
\* followed by the raw bytes appended after them (payload_write_slice).
UcpPacket_new ==
    [cmd |-> 0, seq |-> 0, timestamp |-> 0, window |-> 0, xmit |-> 0,
     una |-> 0, session_id |-> 0, words |-> <<>>, data |-> <<>>,
     skip_times |-> 0, read_pos |-> 0]

payload(p) == 4 * Len(p.words) + Len(p.data)
size(p) == payload(p) + UCP_PACKET_META_SIZE
remaining_load(p) == BUF_SIZE - payload(p) - UCP_PACKET_META_SIZE
is_syn(p) == p.cmd = CMD_SYN

payload_write_u32(p, u) ==
    IF remaining_load(p) >= 4 THEN [p EXCEPT !.words = Append(@, u)] ELSE p

payload_write_slice(p, buf) ==
    IF remaining_load(p) >= Len(buf) THEN [p EXCEPT !.data = @ \o buf] ELSE p

payload_remaining(p) == size(p) - p.read_pos

\* The u32 at the read cursor, and the packet with the cursor advanced.
payload_read_u32(p) ==
    [u |-> p.words[((p.read_pos - UCP_PACKET_META_SIZE) \div 4) + 1],
     p |-> [p EXCEPT !.read_pos = @ + 4]]

\* Up to n raw bytes at the read cursor, and the packet with the cursor advanced.
payload_read_slice(p, n) ==
    LET sz == Min(payload_remaining(p), n)
        from == p.read_pos - UCP_PACKET_META_SIZE - 4 * Len(p.words)
    IN [bytes |-> SubSeq(p.data, from + 1, from + sz),
        p |-> [p EXCEPT !.read_pos = @ + sz]]

\* pack: what goes on the wire is the header and the payload; the read
\* cursor and skip_times stay behind.
pack(p) ==
    [session_id |-> p.session_id, timestamp |-> p.timestamp,
     window |-> p.window, xmit |-> p.xmit, una |-> p.una, seq |-> p.seq,
     cmd |-> p.cmd, words |-> p.words, data |-> p.data]

\* The receiving side reads the datagram into a fresh UcpPacket and parses it.
parse(w) ==
    [UcpPacket_new EXCEPT
        !.session_id = w.session_id, !.timestamp = w.timestamp,
        !.window = w.window, !.xmit = w.xmit, !.una = w.una, !.seq = w.seq,
        !.cmd = w.cmd, !.words = w.words, !.data = w.data,
        !.read_pos = UCP_PACKET_META_SIZE]

parse_ok(w) == w.cmd >= CMD_SYN /\ w.cmd <= CMD_HEARTBEAT_ACK

\* ------------------------------------------------------------ UcpStream
new(t, window) ==
    [state |-> "NONE", initial_time |-> t, alive_time |-> t, heartbeat |-> t,
     send_queue |-> <<>>, recv_queue |-> <<>>, send_buffer |-> <<>>,
     ack_list |-> <<>>, session_id |-> 0, local_window |-> window,
     remote_window |-> DEFAULT_WINDOW, seq |-> 0, una |-> 0,
     rto |-> DEFAULT_RTO]

timestamp(s, t) == U32(t - s.initial_time)
next_seq(s) == U32(s.seq + 1)

\* new_packet also advances the stream's seq counter: the caller stores
\* packet.seq back into the stream.
new_packet(s, cmd, t) ==
    [UcpPacket_new EXCEPT
        !.session_id = s.session_id, !.timestamp = timestamp(s, t),
        !.window = s.local_window, !.seq = next_seq(s), !.una = s.una,
        !.cmd = cmd]

new_noseq_packet(s, cmd, t) ==
    [UcpPacket_new EXCEPT
        !.session_id = s.session_id, !.timestamp = timestamp(s, t),
        !.window = s.local_window, !.una = s.una, !.cmd = cmd]

send_packet(s, packet) == [s EXCEPT !.send_buffer = Append(@, packet)]

\* A handler that emits runs as a task r: the stream s, the datagrams put
\* on the wire so far (out), the callbacks invoked so far with the number
\* of datagrams emitted before each (calls), and where the caller abandons
\* it: at the await of emit number cut (0: it runs to its end).  An
\* abandoned task is dropped: nothing after that await runs.  alive is
\* what update returns.
Task(s, cut) ==
    [s |-> s, out |-> <<>>, calls |-> <<>>, cut |-> cut, dropped |-> FALSE,
     alive |-> TRUE]

\* The datagram of the emit a task is abandoned at is not sent.
send_packet_directly(r, packet) ==
    IF r.dropped THEN r
    ELSE IF r.cut = Len(r.out) + 1 THEN [r EXCEPT !.dropped = TRUE]
    ELSE [r EXCEPT !.out = Append(@, pack(packet))]

is_send_buffer_overflow(s) == Len(s.send_buffer) >= s.remote_window

\* ------------------------------------------------------------ send / recv
RECURSIVE make_packet_send(_, _, _)
make_packet_send(s, buf, t) ==
    IF buf = <<>> THEN s
    ELSE LET packet == new_packet(s, CMD_DATA, t)
             sz == Min(remaining_load(packet), Len(buf))
             filled == payload_write_slice(packet, SubSeq(buf, 1, sz))
         IN make_packet_send(send_packet([s EXCEPT !.seq = packet.seq], filled),
                             SubSeq(buf, sz + 1, Len(buf)), t)

\* send fills the packet at the back of send_buffer, whatever its cmd, and
\* makes new DATA packets for the rest.
send(s, buf, t) ==
    LET sb == s.send_buffer
        remain == IF sb = <<>> THEN 0
                  ELSE Min(remaining_load(sb[Len(sb)]), Len(buf))
        s1 == IF remain > 0
              THEN [s EXCEPT !.send_buffer[Len(sb)] =
                        payload_write_slice(@, SubSeq(buf, 1, remain))]
              ELSE s
    IN IF remain < Len(buf)
       THEN make_packet_send(s1, SubSeq(buf, remain + 1, Len(buf)), t)
       ELSE s1

\* recv_loop without the test of seq against una.
RECURSIVE recv_loop_any_seq(_, _, _, _)
recv_loop_any_seq(rq, una, room, got) ==
    IF room = 0 \/ rq = <<>> THEN [rq |-> rq, got |-> got]
    ELSE LET rd == payload_read_slice(Head(rq), room)
             rq1 == IF payload_remaining(rd.p) = 0 THEN Tail(rq)
                    ELSE <<rd.p>> \o Tail(rq)
         IN recv_loop_any_seq(rq1, una, room - Len(rd.bytes), got \o rd.bytes)

\* The loop of recv: rq is recv_queue, room what is left of buf, got the
\* bytes copied so far.  una is read once, before the loop.
RECURSIVE recv_loop(_, _, _, _)
recv_loop(rq, una, room, got) ==
    IF room = 0 \/ rq = <<>> THEN [rq |-> rq, got |-> got]
    ELSE IF I32(Head(rq).seq - una) >= 0 THEN [rq |-> rq, got |-> got]
    ELSE LET rd == payload_read_slice(Head(rq), room)
             rq1 == IF payload_remaining(rd.p) = 0 THEN Tail(rq)
                    ELSE <<rd.p>> \o Tail(rq)
         IN recv_loop(rq1, una, room - Len(rd.bytes), got \o rd.bytes)

recv(s, n) ==
    LET r == recv_loop(s.recv_queue, s.una, n, <<>>)
    IN [s |-> [s EXCEPT !.recv_queue = r.rq], got |-> r.got]

\* ------------------------------------------------------------ update
check_if_alive(s, t) == (t - s.alive_time) < UCP_STREAM_BROKEN_MILLIS

\* do_heartbeat that waits for more than the interval.
do_heartbeat_late(r, t) ==
    IF (t - r.s.heartbeat) > HEARTBEAT_INTERVAL_MILLIS
    THEN LET sent == send_packet_directly(r, new_noseq_packet(r.s, CMD_HEARTBEAT, t))
         IN IF sent.dropped THEN sent ELSE [sent EXCEPT !.s.heartbeat = t]
    ELSE r

do_heartbeat(r, t) ==
    IF (t - r.s.heartbeat) >= HEARTBEAT_INTERVAL_MILLIS
    THEN LET sent == send_packet_directly(r, new_noseq_packet(r.s, CMD_HEARTBEAT, t))
         IN IF sent.dropped THEN sent ELSE [sent EXCEPT !.s.heartbeat = t]
    ELSE r

RECURSIVE ack_loop(_, _, _, _)
ack_loop(r, packet, list, t) ==
    IF list = <<>> THEN send_packet_directly(r, packet)
    ELSE LET full == remaining_load(packet) < 8
             r1 == IF full THEN send_packet_directly(r, packet) ELSE r
             p1 == IF full THEN new_noseq_packet(r.s, CMD_ACK, t) ELSE packet
             p2 == payload_write_u32(payload_write_u32(p1, Head(list)[1]),
                                     Head(list)[2])
         IN ack_loop(r1, p2, Tail(list), t)

send_ack_list(r, t) ==
    IF r.dropped \/ r.s.ack_list = <<>> THEN r
    ELSE ack_loop([r EXCEPT !.s.ack_list = <<>>],
                  new_noseq_packet(r.s, CMD_ACK, t), r.s.ack_list, t)

\* resend_due that waits for more than rto.
resend_due_strict(packet, ts, rto) ==
    U32(ts - packet.timestamp) > rto \/ packet.skip_times >= SKIP_RESEND_TIMES

\* resend_due with the comparison of the interval against rto reversed.
resend_due_reversed(packet, ts, rto) ==
    U32(ts - packet.timestamp) < rto \/ packet.skip_times >= SKIP_RESEND_TIMES

resend_due(packet, ts, rto) ==
    U32(ts - packet.timestamp) >= rto \/ packet.skip_times >= SKIP_RESEND_TIMES

\* resend_loop that leaves xmit as it is.
RECURSIVE resend_loop_keep_xmit(_, _, _)
resend_loop_keep_xmit(r, i, t) ==
    IF r.dropped \/ i > Len(r.s.send_queue) THEN r
    ELSE LET packet == r.s.send_queue[i]
         IN IF resend_due(packet, timestamp(r.s, t), r.s.rto)
            THEN LET again == [packet EXCEPT
                                  !.skip_times = 0,
                                  !.window = r.s.local_window,
                                  !.una = r.s.una,
                                  !.timestamp = timestamp(r.s, t)]
                 IN resend_loop_keep_xmit(send_packet_directly(
                                    [r EXCEPT !.s.send_queue[i] = again], again),
                                i + 1, t)
            ELSE resend_loop_keep_xmit(r, i + 1, t)

\* The scan of timeout_resend from index i on.
RECURSIVE resend_loop(_, _, _)
resend_loop(r, i, t) ==
    IF r.dropped \/ i > Len(r.s.send_queue) THEN r
    ELSE LET packet == r.s.send_queue[i]
         IN IF resend_due(packet, timestamp(r.s, t), r.s.rto)
            THEN LET again == [packet EXCEPT
                                  !.skip_times = 0,
                                  !.window = r.s.local_window,
                                  !.una = r.s.una,
                                  !.timestamp = timestamp(r.s, t),
                                  !.xmit = U32(@ + 1)]
                 IN resend_loop(send_packet_directly(
                                    [r EXCEPT !.s.send_queue[i] = again], again),
                                i + 1, t)
            ELSE resend_loop(r, i + 1, t)

timeout_resend(r, t) == resend_loop(r, 1, t)

\* window_open without the test of the seq distance.
window_open_no_seq_gate(s) ==
    /\ Len(s.send_queue) < s.remote_window
    /\ s.send_buffer # <<>>

\* window_open with both window tests off by one.
window_open_off_by_one(s) ==
    /\ Len(s.send_queue) <= s.remote_window
    /\ ~ (/\ s.send_queue # <<>>
          /\ s.send_buffer # <<>>
          /\ U32(Head(s.send_buffer).seq - Head(s.send_queue).seq)
                 > s.remote_window)
    /\ s.send_buffer # <<>>

\* The window test of send_pending_packets: may one more packet leave
\* send_buffer?
window_open(s) ==
    /\ Len(s.send_queue) < s.remote_window
    /\ ~ (/\ s.send_queue # <<>>
          /\ s.send_buffer # <<>>
          /\ U32(Head(s.send_buffer).seq - Head(s.send_queue).seq)
                 >= s.remote_window)
    /\ s.send_buffer # <<>>

\* send_pending_packets that takes the packet at the back of send_buffer.
RECURSIVE send_pending_packets_from_back(_, _)
send_pending_packets_from_back(r, t) ==
    IF r.dropped \/ ~ window_open(r.s) THEN r
    ELSE LET sb == r.s.send_buffer
             packet == [sb[Len(sb)] EXCEPT
                           !.window = r.s.local_window,
                           !.una = r.s.una,
                           !.timestamp = timestamp(r.s, t)]
             r1 == send_packet_directly(r, packet)
         IN send_pending_packets_from_back(
                [r1 EXCEPT !.s.send_buffer = SubSeq(sb, 1, Len(sb) - 1),
                           !.s.send_queue = IF r1.dropped THEN @
                                            ELSE Append(@, packet)], t)

\* The packet leaves send_buffer before the emit and enters send_queue
\* after it.
RECURSIVE send_pending_packets(_, _)
send_pending_packets(r, t) ==
    IF r.dropped \/ ~ window_open(r.s) THEN r
    ELSE LET packet == [Head(r.s.send_buffer) EXCEPT
                           !.window = r.s.local_window,
                           !.una = r.s.una,
                           !.timestamp = timestamp(r.s, t)]
             r1 == send_packet_directly(r, packet)
         IN send_pending_packets(
                [r1 EXCEPT !.s.send_buffer = Tail(@),
                           !.s.send_queue = IF r1.dropped THEN @
                                            ELSE Append(@, packet)], t)

\* The application's callbacks: a call is recorded with the number of
\* datagrams the task has emitted before it.  What a callback does to the
\* stream (send, recv) is a step of its own; keep is what on_update returns.
on_update(r, keep) ==
    IF r.dropped THEN r
    ELSE [r EXCEPT !.calls = Append(@, [cb |-> "on_update", at |-> Len(r.out)]),
                   !.alive = keep]

on_broken(r) ==
    [r EXCEPT !.calls = Append(@, [cb |-> "on_broken", at |-> Len(r.out)])]

\* update that sends the pending packets before it retransmits.
update_new_before_resend(s, t, keep, cut) ==
    LET r0 == [Task(s, cut) EXCEPT !.alive = check_if_alive(s, t)]
    IN IF r0.alive
       THEN on_update(
                timeout_resend(
                    send_pending_packets(send_ack_list(do_heartbeat(r0, t), t), t), t),
                keep)
       ELSE on_broken(r0)

\* update: check_if_alive calls on_broken when it finds the stream dead,
\* and nothing else runs then; alive is what update returns.
update(s, t, keep, cut) ==
    LET r0 == [Task(s, cut) EXCEPT !.alive = check_if_alive(s, t)]
    IN IF r0.alive
       THEN on_update(
                send_pending_packets(
                    timeout_resend(send_ack_list(do_heartbeat(r0, t), t), t), t),
                keep)
       ELSE on_broken(r0)

\* ------------------------------------------------------------ process_packet
connecting(s, sid, t) ==
    LET s1 == [s EXCEPT !.state = "CONNECTING", !.session_id = sid]
        syn == new_packet(s1, CMD_SYN, t)
    IN send_packet([s1 EXCEPT !.seq = syn.seq], syn)

\* accepting that takes the SYN's own seq for una.
accepting_una_is_syn_seq(s, packet, t) ==
    LET s1 == [s EXCEPT !.state = "ACCEPTING",
                        !.session_id = packet.session_id,
                        !.una = packet.seq,
                        !.remote_window = packet.window]
        syn_ack == payload_write_u32(
                       payload_write_u32(new_packet(s1, CMD_SYN_ACK, t), packet.seq),
                       packet.timestamp)
    IN send_packet([s1 EXCEPT !.seq = syn_ack.seq], syn_ack)

accepting(s, packet, t) ==
    LET s1 == [s EXCEPT !.state = "ACCEPTING",
                        !.session_id = packet.session_id,
                        !.una = U32(packet.seq + 1),
                        !.remote_window = packet.window]
        syn_ack == payload_write_u32(
                       payload_write_u32(new_packet(s1, CMD_SYN_ACK, t), packet.seq),
                       packet.timestamp)
    IN send_packet([s1 EXCEPT !.seq = syn_ack.seq], syn_ack)

\* The scan of process_an_ack from index i on: sq is send_queue with the
\* skip_times raised so far.
RECURSIVE ack_scan(_, _, _, _)
ack_scan(sq, i, seq, ts) ==
    IF i > Len(sq) THEN [sq |-> sq, found |-> FALSE]
    ELSE IF sq[i].seq = seq
    THEN [sq |-> SubSeq(sq, 1, i - 1) \o SubSeq(sq, i + 1, Len(sq)),
          found |-> TRUE]
    ELSE IF sq[i].timestamp <= ts
    THEN ack_scan([sq EXCEPT ![i].skip_times = @ + 1], i + 1, seq, ts)
    ELSE ack_scan(sq, i + 1, seq, ts)

process_an_ack(s, seq, ts, t) ==
    LET rtt == U32(timestamp(s, t) - ts)
        scan == ack_scan(s.send_queue, 1, seq, ts)
    IN [s |-> [s EXCEPT !.rto = U32(s.rto + rtt) \div 2,
                        !.send_queue = scan.sq],
        found |-> scan.found]

RECURSIVE process_una(_, _)
process_una(s, una) ==
    IF s.send_queue # <<>> /\ I32(Head(s.send_queue).seq - una) < 0
    THEN process_una([s EXCEPT !.send_queue = Tail(@)], una)
    ELSE s

\* The loop of process_ack over the (seq, timestamp) pairs of the payload.
RECURSIVE ack_pairs(_, _, _)
ack_pairs(s, packet, t) ==
    IF payload_remaining(packet) > 0
    THEN LET a == payload_read_u32(packet)
             b == payload_read_u32(a.p)
         IN ack_pairs(process_an_ack(s, a.u, b.u, t).s, b.p, t)
    ELSE s

process_ack(s, packet, t) ==
    IF packet.cmd = CMD_ACK /\ payload(packet) % 8 = 0
    THEN ack_pairs(s, packet, t)
    ELSE s

\* insert_pos that does not look for seq itself in recv_queue.
RECURSIVE insert_pos_no_dedup(_, _, _)
insert_pos_no_dedup(rq, i, seq) ==
    IF i > Len(rq) THEN i - 1
    ELSE IF I32(seq - rq[i].seq) < 0 THEN i - 1
    ELSE insert_pos_no_dedup(rq, i + 1, seq)

\* Where process_data inserts: the number of recv_queue packets before the
\* first one that does not precede seq; -1 when seq is already there.
RECURSIVE insert_pos(_, _, _)
insert_pos(rq, i, seq) ==
    IF i > Len(rq) THEN i - 1
    ELSE IF I32(seq - rq[i].seq) = 0 THEN -1
    ELSE IF I32(seq - rq[i].seq) < 0 THEN i - 1
    ELSE insert_pos(rq, i + 1, seq)

\* advance_una that steps over every packet from index i on, consecutive
\* or not.
RECURSIVE advance_una_over_gaps(_, _, _)
advance_una_over_gaps(rq, i, una) ==
    IF i <= Len(rq)
    THEN advance_una_over_gaps(rq, i + 1, U32(una + 1))
    ELSE una

\* The last loop of process_data: una moves over the run of consecutive
\* seqs that starts at index i.
RECURSIVE advance_una(_, _, _)
advance_una(rq, i, una) ==
    IF i <= Len(rq) /\ rq[i].seq = una
    THEN advance_una(rq, i + 1, U32(una + 1))
    ELSE una

\* process_data without the early return for a seq that precedes una.
process_data_no_una_check(s, packet) ==
    LET s1 == [s EXCEPT !.ack_list = Append(@, <<packet.seq, packet.timestamp>>)]
        pos == insert_pos(s.recv_queue, 1, packet.seq)
        rq == SubSeq(s.recv_queue, 1, pos) \o <<packet>>
                  \o SubSeq(s.recv_queue, pos + 1, Len(s.recv_queue))
    IN IF pos = -1 THEN s1
       ELSE [s1 EXCEPT !.recv_queue = rq,
                       !.una = advance_una(rq, pos + 1, s.una)]

\* process_data that acknowledges only what is not below una.
process_data_ack_new_only(s, packet) ==
    LET s1 == [s EXCEPT !.ack_list = Append(@, <<packet.seq, packet.timestamp>>)]
        pos == insert_pos(s.recv_queue, 1, packet.seq)
        rq == SubSeq(s.recv_queue, 1, pos) \o <<packet>>
                  \o SubSeq(s.recv_queue, pos + 1, Len(s.recv_queue))
    IN IF I32(packet.seq - s.una) < 0 THEN s
       ELSE IF pos = -1 THEN s1
       ELSE [s1 EXCEPT !.recv_queue = rq,
                       !.una = advance_una(rq, pos + 1, s.una)]

process_data(s, packet) ==
    LET s1 == [s EXCEPT !.ack_list = Append(@, <<packet.seq, packet.timestamp>>)]
        pos == insert_pos(s.recv_queue, 1, packet.seq)
        rq == SubSeq(s.recv_queue, 1, pos) \o <<packet>>
                  \o SubSeq(s.recv_queue, pos + 1, Len(s.recv_queue))
    IN IF I32(packet.seq - s.una) < 0 THEN s1
       ELSE IF pos = -1 THEN s1
       ELSE [s1 EXCEPT !.recv_queue = rq,
                       !.una = advance_una(rq, pos + 1, s.una)]

\* process_syn_ack that stores una in every state, not only in CONNECTING.
process_syn_ack_any_state(r, packet, t) ==
    IF packet.cmd = CMD_SYN_ACK /\ payload(packet) = 8
    THEN LET a == payload_read_u32(packet)
             b == payload_read_u32(a.p)
             ack == payload_write_u32(
                        payload_write_u32(new_noseq_packet(r.s, CMD_ACK, t),
                                          packet.seq),
                        packet.timestamp)
             r1 == send_packet_directly(r, ack)
             acked == process_an_ack(r1.s, a.u, b.u, t)
         IN IF r1.dropped THEN r1
            ELSE IF r1.s.state = "CONNECTING"
            THEN IF acked.found
                 THEN [r1 EXCEPT !.s = [acked.s EXCEPT
                                           !.state = "ESTABLISHED",
                                           !.una = U32(packet.seq + 1)]]
                 ELSE [r1 EXCEPT !.s = acked.s]
            ELSE [r1 EXCEPT !.s.una = U32(packet.seq + 1)]
    ELSE r

process_syn_ack(r, packet, t) ==
    IF packet.cmd = CMD_SYN_ACK /\ payload(packet) = 8
    THEN LET a == payload_read_u32(packet)
             b == payload_read_u32(a.p)
             ack == payload_write_u32(
                        payload_write_u32(new_noseq_packet(r.s, CMD_ACK, t),
                                          packet.seq),
                        packet.timestamp)
             r1 == send_packet_directly(r, ack)
             acked == process_an_ack(r1.s, a.u, b.u, t)
         IN IF r1.dropped THEN r1
            ELSE IF r1.s.state = "CONNECTING"
            THEN IF acked.found
                 THEN [r1 EXCEPT !.s = [acked.s EXCEPT
                                           !.state = "ESTABLISHED",
                                           !.una = U32(packet.seq + 1)]]
                 ELSE [r1 EXCEPT !.s = acked.s]
            ELSE r1
    ELSE r

process_heartbeat(r, t) ==
    send_packet_directly(r, new_noseq_packet(r.s, CMD_HEARTBEAT_ACK, t))

process_heartbeat_ack(s, t) == [s EXCEPT !.alive_time = t]

process_state_accepting(r, packet, t) ==
    IF packet.cmd = CMD_ACK /\ payload(packet) = 8
    THEN LET a == payload_read_u32(packet)
             b == payload_read_u32(a.p)
             acked == process_an_ack(r.s, a.u, b.u, t)
         IN IF acked.found
            THEN [r EXCEPT !.s = [acked.s EXCEPT !.state = "ESTABLISHED"]]
            ELSE [r EXCEPT !.s = acked.s]
    ELSE r

process_state_connecting(r, packet, t) == process_syn_ack(r, packet, t)

process_state_established(r, packet, t) ==
    LET r1 == [r EXCEPT !.s = process_una(r.s, packet.una)]
    IN CASE packet.cmd = CMD_ACK -> [r1 EXCEPT !.s = process_ack(r1.s, packet, t)]
         [] packet.cmd = CMD_DATA -> [r1 EXCEPT !.s = process_data(r1.s, packet)]
         [] packet.cmd = CMD_SYN_ACK -> process_syn_ack(r1, packet, t)
         [] packet.cmd = CMD_HEARTBEAT -> process_heartbeat(r1, t)
         [] packet.cmd = CMD_HEARTBEAT_ACK ->
                [r1 EXCEPT !.s = process_heartbeat_ack(r1.s, t)]
         [] OTHER -> r1

\* processing without the test of session_id.
processing_no_session_check(r, packet, t) ==
    LET r1 == [r EXCEPT !.s.alive_time = t,
                        !.s.remote_window = packet.window]
    IN CASE r1.s.state = "ACCEPTING" -> process_state_accepting(r1, packet, t)
         [] r1.s.state = "CONNECTING" -> process_state_connecting(r1, packet, t)
         [] r1.s.state = "ESTABLISHED" -> process_state_established(r1, packet, t)
         [] OTHER -> r1

processing(r, packet, t) ==
    IF r.s.session_id # packet.session_id THEN r
    ELSE LET r1 == [r EXCEPT !.s.alive_time = t,
                             !.s.remote_window = packet.window]
         IN CASE r1.s.state = "ACCEPTING" -> process_state_accepting(r1, packet, t)
              [] r1.s.state = "CONNECTING" -> process_state_connecting(r1, packet, t)
              [] r1.s.state = "ESTABLISHED" -> process_state_established(r1, packet, t)
              [] OTHER -> r1

\* process_packet that accepts a SYN in every state.
process_packet_accept_any(s, packet, expect, from, t, cut) ==
    LET r == Task(s, cut)
    IN IF expect # from THEN r
       ELSE IF is_syn(packet) THEN [r EXCEPT !.s = accepting(s, packet, t)]
       ELSE IF s.state = "NONE" THEN r
       ELSE processing(r, packet, t)

\* expect is the stream's remote_addr, from the address the datagram came
\* from, cut where the caller abandons the call (0: nowhere).
process_packet(s, packet, expect, from, t, cut) ==
    LET r == Task(s, cut)
    IN IF expect # from THEN r
       ELSE IF s.state = "NONE"
       THEN IF is_syn(packet) THEN [r EXCEPT !.s = accepting(s, packet, t)] ELSE r
       ELSE processing(r, packet, t)

\* ------------------------------------------------------------ the system
\* The datagrams a stream emitted, as the socket sends them to its remote
\* address.
Datagrams(p, out) ==
    {[from |-> p, to |-> Remote(p), pkt |-> out[i]] : i \in 1..Len(out)}

\* The bytes of the n-byte buffer the application passes to p.send: the
\* k-th byte p ever sends has value k.
AppBuf(p, n) == [i \in 1..n |-> app_sent[p] + i]

\* tally[p] before p has done anything, and after a task r of p: the
\* on_broken calls, counted up to MaxBroken, and the abandoned tasks.
NoTally == [on_broken |-> 0, abandoned |-> 0]
Tallied(old, r) ==
    [on_broken |-> Min(MaxBroken, old.on_broken
         + Cardinality({i \in 1..Len(r.calls) : r.calls[i].cb = "on_broken"})),
     abandoned |-> old.abandoned + (IF r.dropped THEN 1 ELSE 0)]

Init ==
    /\ ucp \in {[p \in Peers |-> new(0, w)] : w \in Windows}
    /\ net = {}
    /\ now = 0
    /\ app_sent = [p \in Peers |-> 0]
    /\ app_recv = [p \in Peers |-> <<>>]
    /\ send_calls = 0
    /\ early_send = [p \in Peers |-> FALSE]
    /\ dups = 0
    /\ lost = 0
    /\ updated = [p \in Peers |-> FALSE]
    /\ tally = [p \in Peers |-> NoTally]

\* UcpClient::connect: the client stream starts the handshake.
Connecting(p) ==
    /\ p = "c"
    /\ ucp[p].state = "NONE"
    /\ \E sid \in SessionIds :
           ucp' = [ucp EXCEPT ![p] = connecting(ucp[p], sid, now)]
    /\ UNCHANGED <<net, now, app_sent, app_recv, send_calls, early_send, dups, lost, updated,
                   tally>>

\* The application calls p.send(buf) with a buffer of n bytes; limit bounds
\* the number of calls.
Send(p, n, limit) ==
    /\ ucp[p].state # "NONE"
    /\ send_calls < limit
    /\ ucp' = [ucp EXCEPT ![p] = send(ucp[p], AppBuf(p, n), now)]
    /\ app_sent' = [app_sent EXCEPT ![p] = @ + n]
    /\ send_calls' = send_calls + 1
    /\ early_send' = [early_send EXCEPT ![p] = @ \/ ucp[p].state # "ESTABLISHED"]
    /\ UNCHANGED <<net, now, app_recv, dups, lost, updated,
                   tally>>

\* The application calls p.recv(buf) with a buffer of n bytes.
Recv(p, n) ==
    /\ ucp[p].state # "NONE"
    /\ LET r == recv(ucp[p], n)
       IN /\ ucp' = [ucp EXCEPT ![p] = r.s]
          /\ app_recv' = [app_recv EXCEPT ![p] = @ \o r.got]
    /\ UNCHANGED <<net, now, app_sent, send_calls, early_send, dups, lost, updated,
                   tally>>

\* The driver calls p.update(), at most once per instant of the clock (the
\* drivers leave at least 10 ms between two calls), and lets it run to its
\* end.  on_update returns what the application chooses; what the driver
\* does with the value update returns is up to the driver.
Update(p) ==
    /\ ucp[p].state # "NONE"
    /\ ~ updated[p]
    /\ \E keep \in BOOLEAN :
           LET r == update(ucp[p], now, keep, 0)
           IN /\ ucp' = [ucp EXCEPT ![p] = r.s]
              /\ net' = net \cup Datagrams(p, r.out)
              /\ tally' = [tally EXCEPT ![p] = Tallied(@, r)]
    /\ updated' = [updated EXCEPT ![p] = TRUE]
    /\ UNCHANGED <<now, app_sent, app_recv, send_calls, early_send, dups, lost>>

\* The stream a datagram for p is handed to: the multiplexer makes the
\* accepting stream when the first SYN arrives.
StreamFor(p, packet) ==
    IF p = "s" /\ ucp[p].state = "NONE" /\ is_syn(packet)
    THEN new(now, ucp[p].local_window)
    ELSE ucp[p]

\* A datagram in flight reaches its destination, in any order.  With
\* again = TRUE the network duplicates it: a copy stays in flight.  A
\* datagram that is never delivered is lost.
Deliver(d, again) ==
    /\ parse_ok(d.pkt)
    /\ again => dups < MaxDup
    /\ LET p == d.to
           packet == parse(d.pkt)
           r == process_packet(StreamFor(p, packet), packet, Remote(p), d.from,
                               now, 0)
       IN /\ ucp' = [ucp EXCEPT ![p] = r.s]
          /\ net' = (IF again THEN net ELSE net \ {d}) \cup Datagrams(p, r.out)
    /\ dups' = IF again THEN dups + 1 ELSE dups
    /\ UNCHANGED <<now, app_sent, app_recv, send_calls, early_send, lost, updated,
                   tally>>

\* The clock moves on by TickMillis once every stream has been ticked.
\* The datagrams of an instant are delivered within it, in any order, or
\* lost: what is still in flight when the instant ends is lost.
Tick ==
    /\ now < MaxTicks * TickMillis
    /\ \A p \in Peers : ucp[p].state # "NONE" => updated[p]
    /\ now' = now + TickMillis
    /\ updated' = [p \in Peers |-> FALSE]
    /\ net' = {}
    /\ UNCHANGED <<ucp, app_sent, app_recv, send_calls, early_send, dups, lost,
                   tally>>

Next ==
    \/ \E p \in Peers : Connecting(p)
    \/ \E p \in Peers, n \in SendLens : Send(p, n, MaxSend)
    \/ \E p \in Peers, n \in RecvLens : Recv(p, n)
    \/ \E p \in Peers : Update(p)
    \/ \E d \in net, again \in BOOLEAN : Deliver(d, again)
    \/ Tick

Spec == Init /\ [][Next]_vars

\* ------------------------------------------------------------ data phase
\* The two streams right after a handshake in which nothing was lost and
\* the application sent nothing, all of it at instant 0: connecting,
\* update (SYN), accepting, update (SYN_ACK), process_syn_ack (ACK),
\* process_state_accepting.
HandshakeRun(wc, ws) ==
    LET c1 == update(connecting(new(0, wc), CHOOSE sid \in SessionIds : TRUE, 0),
                     0, TRUE, 0)
        s1 == process_packet(new(0, ws), parse(c1.out[1]), "c", "c", 0, 0)
        s2 == update(s1.s, 0, TRUE, 0)
        c2 == process_packet(c1.s, parse(s2.out[1]), "s", "s", 0, 0)
        s3 == process_packet(s2.s, parse(c2.out[1]), "c", "c", 0, 0)
    IN [c |-> c2.s, s |-> s3.s]

InitData ==
    /\ ucp \in {HandshakeRun(w, w) : w \in Windows}
    /\ net = {}
    /\ now = 0
    /\ app_sent = [p \in Peers |-> 0]
    /\ app_recv = [p \in Peers |-> <<>>]
    /\ send_calls = 0
    /\ early_send = [p \in Peers |-> FALSE]
    /\ dups = 0
    /\ lost = 0
    /\ updated = [p \in Peers |-> TRUE]
    /\ tally = [p \in Peers |-> NoTally]

NextData ==
    \/ \E n \in SendLens : Send("c", n, DataSend)
    \/ \E p \in Peers, n \in RecvLens : Recv(p, n)
    \/ \E p \in Peers : Update(p)
    \/ \E d \in net, again \in BOOLEAN : Deliver(d, again)
    \/ Tick

DataSpec == InitData /\ [][NextData]_vars

\* ------------------------------------------------------------ handshake
\* The handshake over a network that loses nothing: a datagram stays in
\* flight, across instants of the clock, until it is delivered, and the
\* application sends nothing.  Both drivers loop for ever over recv_from
\* and update, so Update and Deliver are fair.
TickKeep ==
    /\ now < MaxTicks * TickMillis
    /\ \A p \in Peers : ucp[p].state # "NONE" => updated[p]
    /\ now' = now + TickMillis
    /\ updated' = [p \in Peers |-> FALSE]
    /\ UNCHANGED <<ucp, net, app_sent, app_recv, send_calls, early_send, dups, lost,
                   tally>>

NextHandshake ==
    \/ \E p \in Peers : Connecting(p)
    \/ \E p \in Peers : Update(p)
    \/ \E d \in net, again \in BOOLEAN : Deliver(d, again)
    \/ TickKeep

HandshakeSpec ==
    /\ Init
    /\ [][NextHandshake]_vars
    /\ WF_vars(Connecting("c"))
    /\ \A p \in Peers : WF_vars(Update(p))
    /\ WF_vars(\E d \in net : Deliver(d, FALSE))

\* ------------------------------------------------------------ delivery
\* Two ESTABLISHED streams on a slow clock: an instant lasts LiveTickMillis,
\* long enough for the heartbeat and, after UCP_STREAM_BROKEN_MILLIS of
\* silence, the liveness timeout.  The network delivers the datagrams of
\* an instant or loses what is left of them when the instant ends; it
\* does the latter at most MaxLoss times.  The client sends at instant 0,
\* and the clock runs for LiveTicks instants and two more for every loss.
LiveTickMillis == 10000
LiveTicks == 4
MaxLoss == 2

TickLive ==
    /\ now < (LiveTicks + 2 * MaxLoss) * LiveTickMillis
    /\ \A p \in Peers : updated[p]
    /\ net # {} => lost < MaxLoss
    /\ now' = now + LiveTickMillis
    /\ updated' = [p \in Peers |-> FALSE]
    /\ net' = {}
    /\ lost' = IF net = {} THEN lost ELSE lost + 1
    /\ UNCHANGED <<ucp, app_sent, app_recv, send_calls, early_send, dups, tally>>

NextLive ==
    \/ now = 0 /\ Send("c", PayloadCap + 1, MaxSend)
    \/ Recv("s", 2 * PayloadCap)
    \/ \E p \in Peers : Update(p)
    \/ \E d \in net : Deliver(d, FALSE)
    \/ TickLive

\* Both drivers loop for ever over recv_from and update, the application
\* keeps calling recv, and time passes.  Weak fairness of Update(p), of a
\* delivery and of a recv that returns bytes is written out as
\* []<>(not enabled) \/ []<>(step): Update(p) is the only step that sets
\* updated[p], a delivery the only one that takes a datagram out of net
\* while the clock stands, recv by s the only one that extends app_recv.
UpdateEnabled(p) == ucp[p].state # "NONE" /\ ~ updated[p]
\* The step is a call of p.update.
UpdateStep(p) == ~ updated[p] /\ updated'[p]
DeliverStep == now' = now /\ net \ net' # {}
RecvEnabled(p) ==
    /\ ucp[p].recv_queue # <<>>
    /\ I32(Head(ucp[p].recv_queue).seq - ucp[p].una) < 0
RecvStep(p) == app_recv'[p] # app_recv[p]

LiveFairness ==
    /\ WF_vars(TickLive)
    /\ \A p \in Peers : []<>(~ UpdateEnabled(p)) \/ []<><<UpdateStep(p)>>_vars
    /\ []<>(net = {}) \/ []<><<DeliverStep>>_vars
    /\ []<>(~ RecvEnabled("s")) \/ []<><<RecvStep("s")>>_vars

LiveSpec == InitData /\ [][NextLive]_vars /\ LiveFairness

\* ------------------------------------------------------------ abandoned calls
\* update and process_packet are async: their caller can drop the call at
\* the await of an emit (send_to), for instance when it races the call
\* against a timer.  At most MaxAbandon calls are abandoned, each at one of
\* its first MaxCut emits.
MaxAbandon == 1
MaxCut == 3

Abandoned == tally["c"].abandoned + tally["s"].abandoned

\* The driver calls p.update() and drops the call at its emit number cut.
UpdateAbandoned(p, cut) ==
    /\ ucp[p].state # "NONE"
    /\ ~ updated[p]
    /\ Abandoned < MaxAbandon
    /\ LET r == update(ucp[p], now, TRUE, cut)
       IN /\ r.dropped
          /\ ucp' = [ucp EXCEPT ![p] = r.s]
          /\ net' = net \cup Datagrams(p, r.out)
          /\ tally' = [tally EXCEPT ![p] = Tallied(@, r)]
    /\ updated' = [updated EXCEPT ![p] = TRUE]
    /\ UNCHANGED <<now, app_sent, app_recv, send_calls, early_send, dups, lost>>

\* A datagram reaches its destination and the driver drops the call of
\* process_packet at its emit number cut.
DeliverAbandoned(d, cut) ==
    /\ parse_ok(d.pkt)
    /\ Abandoned < MaxAbandon
    /\ LET p == d.to
           packet == parse(d.pkt)
           r == process_packet(StreamFor(p, packet), packet, Remote(p), d.from,
                               now, cut)
       IN /\ r.dropped
          /\ ucp' = [ucp EXCEPT ![p] = r.s]
          /\ net' = (net \ {d}) \cup Datagrams(p, r.out)
          /\ tally' = [tally EXCEPT ![p] = Tallied(@, r)]
    /\ UNCHANGED <<now, app_sent, app_recv, send_calls, early_send, dups, lost,
                   updated>>

NextCancel ==
    \/ \E p \in Peers : Connecting(p)
    \/ \E p \in Peers, n \in SendLens : Send(p, n, MaxSend)
    \/ \E p \in Peers : Update(p)
    \/ \E p \in Peers, cut \in 1..MaxCut : UpdateAbandoned(p, cut)
    \/ \E d \in net : Deliver(d, FALSE)
    \/ \E d \in net, cut \in 1..MaxCut : DeliverAbandoned(d, cut)
    \/ Tick

CancelSpec == Init /\ [][NextCancel]_vars

\* ------------------------------------------------------------ forged packets
\* Anyone can send a datagram to a stream's socket: a third party x, or
\* the peer itself under another session_id.  The forger copies a datagram
\* in flight (d), sends it to p from the address from and with the
\* session_id sid; it is forged when the address is not p's remote address
\* or, for a stream that has a session, when the session_id is not p's.
Addresses == Peers \cup {"x"}
ForgedIds == {0, 8}

Forged(p, from, sid) ==
    \/ from # Remote(p)
    \/ sid # ucp[p].session_id /\ ucp[p].state # "NONE"

ForgedPacket(d, sid) == [parse(d.pkt) EXCEPT !.session_id = sid]

DeliverForged(d, p, from, sid) ==
    /\ parse_ok(d.pkt)
    /\ Forged(p, from, sid)
    /\ LET r == process_packet(ucp[p], ForgedPacket(d, sid), Remote(p), from, now, 0)
       IN /\ ucp' = [ucp EXCEPT ![p] = r.s]
          /\ net' = net \cup Datagrams(p, r.out)
    /\ UNCHANGED <<now, app_sent, app_recv, send_calls, early_send, dups, lost,
                   updated, tally>>

NextForge ==
    \/ \E p \in Peers : Connecting(p)
    \/ \E p \in Peers, n \in SendLens : Send(p, n, MaxSend)
    \/ \E p \in Peers : Update(p)
    \/ \E d \in net : Deliver(d, FALSE)
    \/ \E d \in net, p \in Peers, from \in Addresses,
          sid \in ForgedIds \cup SessionIds : DeliverForged(d, p, from, sid)
    \/ Tick

ForgeSpec == Init /\ [][NextForge]_vars

\* ------------------------------------------------------------ keepalive
\* Two ESTABLISHED streams with nothing to send, ticked every
\* DRIVER_TICK_MILLIS for KeepaliveMillis, over a network that loses
\* nothing: every datagram is delivered before the clock moves on.
KeepaliveMillis == 10000

TickBeat ==
    /\ now < KeepaliveMillis
    /\ \A p \in Peers : updated[p]
    /\ net = {}
    /\ now' = now + DRIVER_TICK_MILLIS
    /\ updated' = [p \in Peers |-> FALSE]
    /\ UNCHANGED <<ucp, net, app_sent, app_recv, send_calls, early_send, dups, lost,
                   tally>>

NextBeat ==
    \/ \E p \in Peers : Update(p)
    \/ \E d \in net : Deliver(d, FALSE)
    \/ TickBeat

BeatSpec == InitData /\ [][NextBeat]_vars

\* ------------------------------------------------------------ a busy tick
\* Two ESTABLISHED streams on the slow clock, both applications sending a
\* byte at a time (OrderSend calls in all), for OrderTicks instants: an
\* update can find a heartbeat due, acknowledgements to send, a packet to
\* retransmit and a new one to send.
OrderSend == 3
OrderTicks == 2

TickOrder ==
    /\ now < OrderTicks * LiveTickMillis
    /\ \A p \in Peers : updated[p]
    /\ now' = now + LiveTickMillis
    /\ updated' = [p \in Peers |-> FALSE]
    /\ net' = {}
    /\ UNCHANGED <<ucp, app_sent, app_recv, send_calls, early_send, dups, lost,
                   tally>>

NextOrder ==
    \/ \E p \in Peers : Send(p, 1, OrderSend)
    \/ \E p \in Peers : Update(p)
    \/ \E d \in net : Deliver(d, FALSE)
    \/ TickOrder

OrderSpec == InitData /\ [][NextOrder]_vars

\* ------------------------------------------------------------ handshake under loss
\* The handshake from construction on, over a network that delivers the
\* datagrams of an instant or loses what is left of them when the instant
\* ends, the latter at most MaxLoss times.  Either application may call
\* send once the stream exists (RecoverSend calls in all).  The clock runs
\* for RecoverTicks instants and two more for every loss, and the drivers
\* and the network are fair as in LiveSpec.
RecoverTicks == 2
RecoverSend == 1

TickRecover ==
    /\ now < (RecoverTicks + 2 * MaxLoss) * TickMillis
    /\ \A p \in Peers : ucp[p].state # "NONE" => updated[p]
    /\ net # {} => lost < MaxLoss
    /\ now' = now + TickMillis
    /\ updated' = [p \in Peers |-> FALSE]
    /\ net' = {}
    /\ lost' = IF net = {} THEN lost ELSE lost + 1
    /\ UNCHANGED <<ucp, app_sent, app_recv, send_calls, early_send, dups, tally>>

NextRecover ==
    \/ \E p \in Peers : Connecting(p)
    \/ \E p \in Peers : Send(p, 1, RecoverSend)
    \/ \E p \in Peers : Update(p)
    \/ \E d \in net : Deliver(d, FALSE)
    \/ TickRecover

RecoverFairness ==
    /\ WF_vars(Connecting("c"))
    /\ WF_vars(TickRecover)
    /\ \A p \in Peers : []<>(~ UpdateEnabled(p)) \/ []<><<UpdateStep(p)>>_vars
    /\ []<>(net = {}) \/ []<><<DeliverStep>>_vars

RecoverSpec == Init /\ [][NextRecover]_vars /\ RecoverFairness

\* ------------------------------------------------------------ properties
Established(p) == ucp[p].state = "ESTABLISHED"
SeqsOf(q) == {q[i].seq : i \in 1..Len(q)}
Max(a, b) == IF a >= b THEN a ELSE b

\* C1: between two ESTABLISHED peers the bytes returned so far by the
\* receiver's recv calls are a prefix of the bytes passed so far to the
\* sender's send calls (the k-th byte sent has value k), whatever the
\* network loses, duplicates or reorders.
C1_RecvIsPrefixOfSent ==
    \A p \in Peers :
        ~ early_send[Remote(p)] =>
            /\ Len(app_recv[p]) <= app_sent[Remote(p)]
            /\ \A i \in 1..Len(app_recv[p]) : app_recv[p][i] = i

\* Every byte of two send calls has come out of recv, in spite of a
\* duplicated datagram.
C1_Witness ==
    /\ send_calls = DataSend
    /\ dups = MaxDup
    /\ app_sent["c"] > PayloadCap
    /\ Len(app_recv["s"]) = app_sent["c"]

\* The seqs the client's DATA packets can carry.
DataSeqRange == 2..(1 + 2 * MaxSend)
\* The DATA packet with seq x is staged or in flight at the client.
Pending(x) ==
    x \in SeqsOf(ucp["c"].send_buffer) \cup SeqsOf(ucp["c"].send_queue)
\* It has been acknowledged, the server's una has passed it, and recv has
\* returned every byte sent.
Delivered(x) ==
    /\ ~ Pending(x)
    /\ I32(ucp["s"].una - x) > 0
    /\ Len(app_recv["s"]) = app_sent["c"]
\* p has heard nothing for UCP_STREAM_BROKEN_MILLIS: update returns false.
TimedOut(p) == ~ check_if_alive(ucp[p], now)

HasCmd(q, cmd) == \E i \in 1..Len(q) : q[i].cmd = cmd
\* The datagrams carrying cmd that p has put in flight.
Sent(p, cmd, flight) == {d \in flight : d.from = p /\ d.pkt.cmd = cmd}

\* The steps of the handshake, each as the claim describes it.
C3_Step ==
    \* the client's update emits the SYN, with the seq it was given
    /\ (UpdateStep("c") /\ HasCmd(ucp["c"].send_buffer, CMD_SYN)) =>
           \E d \in Sent("c", CMD_SYN, net') :
               d.pkt.seq = ucp["c"].send_buffer[1].seq
    \* a SYN makes the server stream: ACCEPTING, una past the SYN, and a
    \* SYN_ACK staged that echoes the SYN's seq and timestamp
    /\ (ucp["s"].state = "NONE" /\ ucp'["s"].state # "NONE") =>
           /\ ucp'["s"].state = "ACCEPTING"
           /\ \E d \in Sent("c", CMD_SYN, net) :
                  /\ ucp'["s"].una = U32(d.pkt.seq + 1)
                  /\ Len(ucp'["s"].send_buffer) = 1
                  /\ ucp'["s"].send_buffer[1].cmd = CMD_SYN_ACK
                  /\ ucp'["s"].send_buffer[1].words = <<d.pkt.seq, d.pkt.timestamp>>
    \* the server's update emits the SYN_ACK with that echo
    /\ (UpdateStep("s") /\ HasCmd(ucp["s"].send_buffer, CMD_SYN_ACK)) =>
           \E d \in Sent("s", CMD_SYN_ACK, net') :
               /\ d.pkt.seq = ucp["s"].send_buffer[1].seq
               /\ d.pkt.words = ucp["s"].send_buffer[1].words
    \* a SYN_ACK makes the client ESTABLISHED: una past the SYN_ACK, an ACK
    \* emitted that echoes the SYN_ACK's seq and timestamp, the SYN gone
    /\ (ucp["c"].state = "CONNECTING" /\ ucp'["c"].state # "CONNECTING") =>
           /\ ucp'["c"].state = "ESTABLISHED"
           /\ ~ HasCmd(ucp'["c"].send_queue, CMD_SYN)
           /\ \E d \in Sent("s", CMD_SYN_ACK, net) :
                  /\ ucp'["c"].una = U32(d.pkt.seq + 1)
                  /\ d.pkt.seq = ucp["s"].seq
                  /\ \E a \in Sent("c", CMD_ACK, net') :
                         a.pkt.words = <<d.pkt.seq, d.pkt.timestamp>>
    \* an ACK makes the server ESTABLISHED: the SYN_ACK gone, una past the SYN
    /\ (ucp["s"].state = "ACCEPTING" /\ ucp'["s"].state # "ACCEPTING") =>
           /\ ucp'["s"].state = "ESTABLISHED"
           /\ ~ HasCmd(ucp'["s"].send_queue, CMD_SYN_ACK)
           /\ ucp'["s"].una = U32(ucp["c"].seq + 1)

\* The end of the handshake: both streams ESTABLISHED, each with una one
\* past the other's first seq, and nothing of the handshake left to send.
C3_Done ==
    /\ Established("c") /\ Established("s")
    /\ ucp["c"].una = U32(ucp["s"].seq + 1)
    /\ ucp["s"].una = U32(ucp["c"].seq + 1)
    /\ \A p \in Peers : ucp[p].send_queue = <<>> /\ ucp[p].send_buffer = <<>>

\* The client has called connecting, no datagram is in flight and every
\* stream there is has been ticked at this instant.
C3_Settled ==
    /\ ucp["c"].state # "NONE"
    /\ net = {}
    /\ \A p \in Peers : ucp[p].state = "NONE" \/ updated[p]

\* C3: from a client that called connecting and a server stream in NONE,
\* with no datagram lost and both sides ticked, the handshake runs as
\* described step by step (SYN, ACCEPTING and SYN_ACK with the echo, ACK
\* with the echo and ESTABLISHED with una = S_s0 + 1, ESTABLISHED with
\* una = S_c0 + 1 and the SYN_ACK removed), an ESTABLISHED stream never
\* holds a SYN or SYN_ACK in send_queue, and the handshake cannot stop
\* short of its end: once every datagram is delivered and both sides are
\* ticked, it is over.
C3_CleanHandshake ==
    /\ [][C3_Step]_vars
    /\ [](\A p \in Peers : Established(p) =>
             /\ ~ HasCmd(ucp[p].send_queue, CMD_SYN)
             /\ ~ HasCmd(ucp[p].send_queue, CMD_SYN_ACK))
    /\ [](C3_Settled => C3_Done)

\* The handshake is over although the SYN was retransmitted on the way.
C3_Witness ==
    /\ C3_Done
    /\ \E d \in net : d.pkt.cmd = CMD_SYN /\ d.pkt.xmit >= 1

\* C4: una never decreases, in wrap-safe order, in any step of either stream.
C4_UnaNeverDecreases ==
    [][\A p \in Peers : I32(ucp'[p].una - ucp[p].una) >= 0]_vars

\* Both streams took their una from the handshake and the server's has
\* moved on over DATA.
C4_Witness ==
    /\ Established("c") /\ ucp["c"].una = 2
    /\ Established("s") /\ ucp["s"].una > 2

\* C5 as stated: every packet in recv_queue has seq >= una.
C5_Original ==
    \A p \in Peers : \A i \in 1..Len(ucp[p].recv_queue) :
        I32(ucp[p].recv_queue[i].seq - ucp[p].una) >= 0

\* C5 as amended: the packets of recv_queue whose seq precedes una are the
\* ones una has passed and recv has not drained yet: they are at the front,
\* with consecutive seqs that end at una - 1; every other packet is out of
\* order, with seq > una.
C5_RecvQueueAroundUna ==
    \A p \in Peers :
        LET rq == ucp[p].recv_queue
            una == ucp[p].una
            below(i) == I32(rq[i].seq - una) < 0
        IN \A i \in 1..Len(rq) :
               IF below(i)
               THEN /\ \A j \in 1..i : below(j)
                    /\ IF i < Len(rq) /\ below(i + 1)
                       THEN rq[i + 1].seq = U32(rq[i].seq + 1)
                       ELSE rq[i].seq = U32(una - 1)
               ELSE I32(rq[i].seq - una) > 0

\* A recv_queue that holds a packet una has passed and a packet that is
\* out of order.
C5_Witness ==
    \E p \in Peers : \E i, j \in 1..Len(ucp[p].recv_queue) :
        /\ I32(ucp[p].recv_queue[i].seq - ucp[p].una) < 0
        /\ I32(ucp[p].recv_queue[j].seq - ucp[p].una) > 0

\* C6: the seqs of recv_queue are strictly ascending from front to back.
C6_RecvQueueAscending ==
    \A p \in Peers : \A i, j \in 1..Len(ucp[p].recv_queue) :
        i < j => I32(ucp[p].recv_queue[j].seq - ucp[p].recv_queue[i].seq) > 0

\* Two packets are queued after the network duplicated a datagram.
C6_Witness ==
    \E p \in Peers : Len(ucp[p].recv_queue) >= 2 /\ dups = MaxDup

\* C7: the seqs of send_queue are strictly ascending from front to back.
C7_SendQueueAscending ==
    \A p \in Peers : \A i, j \in 1..Len(ucp[p].send_queue) :
        i < j => I32(ucp[p].send_queue[j].seq - ucp[p].send_queue[i].seq) > 0

\* Two packets are in flight, the older of them retransmitted.
C7_Witness ==
    \E p \in Peers :
        /\ Len(ucp[p].send_queue) >= 2
        /\ ucp[p].send_queue[1].xmit >= 1

\* C8 as stated: every packet in send_queue carries xmit >= 1.
C8_Original ==
    \A p \in Peers : \A i \in 1..Len(ucp[p].send_queue) :
        ucp[p].send_queue[i].xmit >= 1

\* C8 as amended: a packet enters send_queue in the step that emits it for
\* the first time, with xmit = 0; afterwards its xmit only changes by a
\* retransmission, which emits it again and raises xmit by exactly one.
C8_EmittedAndXmitCounted ==
    [][\A p \in Peers : \A i \in 1..Len(ucp'[p].send_queue) :
          LET q == ucp'[p].send_queue[i]
              old == {k \in 1..Len(ucp[p].send_queue) :
                          ucp[p].send_queue[k].seq = q.seq}
              emitted == [from |-> p, to |-> Remote(p), pkt |-> pack(q)] \in net'
          IN IF old = {} \/ ucp[p].state = "NONE"
             THEN q.xmit = 0 /\ emitted
             ELSE \A k \in old :
                      \/ /\ q.xmit = ucp[p].send_queue[k].xmit
                         /\ q.timestamp = ucp[p].send_queue[k].timestamp
                      \/ /\ q.xmit = ucp[p].send_queue[k].xmit + 1
                         /\ emitted]_vars

\* A packet in send_queue that has been retransmitted.
C8_Witness ==
    \E p \in Peers : \E i \in 1..Len(ucp[p].send_queue) :
        ucp[p].send_queue[i].xmit = 1

\* C9 as stated: after every update, len(send_queue) <= remote_window.
C9_Original ==
    [][\A p \in Peers :
          UpdateStep(p) =>
              Len(ucp'[p].send_queue) <= ucp'[p].remote_window]_vars

\* C9 as amended: update moves no packet into send_queue beyond
\* remote_window: after an update, len(send_queue) <= remote_window unless
\* send_queue has the length it had before the update (the window shrank
\* below what is in flight).
C9_UpdateKeepsWindow ==
    [][\A p \in Peers :
          UpdateStep(p) =>
              Len(ucp'[p].send_queue)
                  <= Max(ucp'[p].remote_window, Len(ucp[p].send_queue))]_vars

\* update has filled send_queue up to remote_window and left a packet
\* waiting in send_buffer.
C9_Witness ==
    \E p \in Peers :
        /\ updated[p]
        /\ Len(ucp[p].send_queue) = ucp[p].remote_window
        /\ ucp[p].send_buffer # <<>>

\* A DATA packet with seq x has been through process_data of p: una has
\* passed x, or x waits in recv_queue.
Seen(p, x) == I32(x - ucp[p].una) < 0 \/ x \in SeqsOf(ucp[p].recv_queue)
DataSeqs(p) ==
    {d.pkt.seq : d \in {e \in net : e.to = p /\ e.pkt.cmd = CMD_DATA}}
        \cup SeqsOf(ucp[p].recv_queue)
        \cup {U32(ucp[p].una - k) : k \in 1..3}
DataPacket(p, x) ==
    [UcpPacket_new EXCEPT !.cmd = CMD_DATA, !.seq = x,
                          !.session_id = ucp[p].session_id,
                          !.read_pos = UCP_PACKET_META_SIZE]
Processed(s, p, packet) ==
    process_packet(s, packet, Remote(p), Remote(p), now, 0).s

\* C10: for an ESTABLISHED stream, a DATA packet delivered twice in a row
\* leaves recv_queue, una and what recv returns as one delivery does; a
\* DATA packet whose seq has been processed before (whatever came in
\* between) changes neither recv_queue nor una; and a seq that has been
\* processed stays so.
C10_DuplicateDataIdempotent ==
    /\ [](\A p \in Peers : Established(p) =>
            /\ \A d \in net :
                   (d.to = p /\ d.pkt.cmd = CMD_DATA) =>
                       LET once == Processed(ucp[p], p, parse(d.pkt))
                           twice == Processed(once, p, parse(d.pkt))
                       IN /\ twice.recv_queue = once.recv_queue
                          /\ twice.una = once.una
                          /\ \A n \in RecvLens :
                                 recv(twice, n).got = recv(once, n).got
            /\ \A x \in DataSeqs(p) :
                   Seen(p, x) =>
                       LET after == Processed(ucp[p], p, DataPacket(p, x))
                       IN /\ after.recv_queue = ucp[p].recv_queue
                          /\ after.una = ucp[p].una)
    /\ [][\A p \in Peers : \A x \in DataSeqs(p) :
             (Established(p) /\ Seen(p, x)) => Seen(p, x)']_vars

\* The network has duplicated a DATA datagram whose seq the receiver has
\* already processed and still holds.
C10_Witness ==
    \E d \in net :
        /\ d.pkt.cmd = CMD_DATA
        /\ Established(d.to)
        /\ dups = MaxDup
        /\ d.pkt.seq \in SeqsOf(ucp[d.to].recv_queue)

\* The (seq, timestamp) entries of the ACK datagrams in flight to p.
AckEntries(p) ==
    UNION {{<<d.pkt.words[2 * k - 1], d.pkt.words[2 * k]>> :
                k \in 1..(Len(d.pkt.words) \div 2)} :
           d \in {e \in net : e.to = p /\ e.pkt.cmd = CMD_ACK}}

\* C11: for an ESTABLISHED stream, an ACK entry (seq, timestamp) whose seq
\* matches no packet in send_queue is a no-op: process_an_ack removes
\* nothing and leaves the stream as it is, the skip_times of every
\* send_queue packet and rto included.
C11_UnknownAckIsNoOp ==
    \A p \in Peers : Established(p) =>
        \A a \in AckEntries(p) :
            a[1] \notin SeqsOf(ucp[p].send_queue) =>
                process_an_ack(ucp[p], a[1], a[2], now).s = ucp[p]

\* An ACK entry in flight names a seq that is no longer in send_queue, while
\* a later packet, sent no later than the entry's timestamp, still is.
C11_Witness ==
    \E p \in Peers : \E a \in AckEntries(p) :
        /\ Established(p)
        /\ a[1] \notin SeqsOf(ucp[p].send_queue)
        /\ \E i \in 1..Len(ucp[p].send_queue) :
               /\ ucp[p].send_queue[i].timestamp <= a[2]
               /\ I32(ucp[p].send_queue[i].seq - a[1]) > 0

\* The callbacks named cb among the calls of a task.
CallsOf(r, cb) == {i \in 1..Len(r.calls) : r.calls[i].cb = cb}

\* C12: update returns false and invokes on_broken exactly when
\* now - alive_time >= UCP_STREAM_BROKEN_MILLIS (equality included), and
\* over the whole life of a stream on_broken is invoked at most once,
\* whatever the driver does after update has returned false (here: it
\* keeps calling update).
C12_BrokenExactlyOnce ==
    /\ [][\A p \in Peers : UpdateStep(p) =>
             \A keep \in BOOLEAN :
                 LET r == update(ucp[p], now, keep, 0)
                 IN (~ r.alive /\ CallsOf(r, "on_broken") # {})
                        <=> (now - ucp[p].alive_time >= UCP_STREAM_BROKEN_MILLIS)]_vars
    /\ [](\A p \in Peers : tally[p].on_broken <= 1)

\* update has found a stream dead exactly UCP_STREAM_BROKEN_MILLIS after it
\* last heard from its peer, and has called on_broken.
C12_Witness ==
    \E p \in Peers :
        /\ updated[p]
        /\ now - ucp[p].alive_time = UCP_STREAM_BROKEN_MILLIS
        /\ tally[p].on_broken = 1

\* The place of a datagram w in the order of emission of an update of
\* stream s: 1 heartbeat, 2 acknowledgements, 3 a retransmission (its seq
\* was in send_queue), 4 a new transmission (its seq was in send_buffer).
Phase(s, w) ==
    CASE w.cmd = CMD_HEARTBEAT -> 1
      [] w.cmd = CMD_ACK -> 2
      [] w.cmd \notin {CMD_HEARTBEAT, CMD_ACK}
             /\ w.seq \in SeqsOf(s.send_queue) -> 3
      [] w.cmd \notin {CMD_HEARTBEAT, CMD_ACK}
             /\ w.seq \notin SeqsOf(s.send_queue)
             /\ w.seq \in SeqsOf(s.send_buffer) -> 4
      [] OTHER -> 0
\* The index in queue q of the packet with seq x.
Pos(q, x) == CHOOSE k \in 1..Len(q) : q[k].seq = x
\* The words of the ACK datagrams of out, in order.
RECURSIVE AckWords(_)
AckWords(out) ==
    IF out = <<>> THEN <<>>
    ELSE (IF Head(out).cmd = CMD_ACK THEN Head(out).words ELSE <<>>)
             \o AckWords(Tail(out))
RECURSIVE Flat(_)
Flat(list) ==
    IF list = <<>> THEN <<>> ELSE <<Head(list)[1], Head(list)[2]>> \o Flat(Tail(list))

\* What one update of stream s at time t, a task r, must have done when s
\* passed the liveness check.
UpdateInOrder(s, r, t, keep) ==
    LET out == r.out
        of(k) == {i \in 1..Len(out) : Phase(s, out[i]) = k}
    IN /\ \A i \in 1..Len(out) : Phase(s, out[i]) > 0
       /\ \A i, j \in 1..Len(out) :
              i < j =>
                  /\ Phase(s, out[i]) <= Phase(s, out[j])
                  /\ (Phase(s, out[i]) = 3 /\ Phase(s, out[j]) = 3) =>
                         Pos(s.send_queue, out[i].seq) < Pos(s.send_queue, out[j].seq)
                  /\ (Phase(s, out[i]) = 4 /\ Phase(s, out[j]) = 4) =>
                         Pos(s.send_buffer, out[i].seq) < Pos(s.send_buffer, out[j].seq)
       \* one HEARTBEAT when it is due, none otherwise
       /\ Cardinality(of(1)) =
              (IF t - s.heartbeat >= HEARTBEAT_INTERVAL_MILLIS THEN 1 ELSE 0)
       \* every entry of ack_list, in order
       /\ AckWords(out) = Flat(s.ack_list)
       \* every packet of send_queue that is due
       /\ {out[i].seq : i \in of(3)} =
              {s.send_queue[k].seq : k \in {n \in 1..Len(s.send_queue) :
                   resend_due(s.send_queue[n], timestamp(s, t), s.rto)}}
       \* the new transmissions are what moved from send_buffer to send_queue
       /\ {out[i].seq : i \in of(4)} =
              SeqsOf(r.s.send_queue) \ SeqsOf(s.send_queue)
       \* on_update is called once, after every emission, and its value returned
       /\ r.calls = <<[cb |-> "on_update", at |-> Len(out)]>>
       /\ r.alive = keep

\* C13: an update that passes the liveness check emits in the order
\* HEARTBEAT (if due), all ACKs, all retransmissions in send_queue order,
\* all new transmissions in send_buffer order, and calls on_update only
\* after all of them, returning what on_update returns; an update that
\* fails the liveness check emits nothing, moves no packet and does not
\* call on_update.
C13_UpdateOrder ==
    \A p \in Peers : \A keep \in BOOLEAN :
        LET r == update(ucp[p], now, keep, 0)
        IN IF check_if_alive(ucp[p], now)
           THEN UpdateInOrder(ucp[p], r, now, keep)
           ELSE /\ r.out = <<>>
                /\ r.s = ucp[p]
                /\ CallsOf(r, "on_update") = {}
                /\ ~ r.alive

\* A stream about to be ticked whose update emits a HEARTBEAT, an ACK, a
\* retransmission and a new transmission.
C13_Witness ==
    \E p \in Peers :
        /\ ~ updated[p]
        /\ LET out == update(ucp[p], now, TRUE, 0).out
           IN \A k \in 1..4 : \E i \in 1..Len(out) : Phase(ucp[p], out[i]) = k

\* The number of packets an update of p has just moved from send_buffer
\* to send_queue.
Moved(p) == Len(ucp'[p].send_queue) - Len(ucp[p].send_queue)
\* p is ESTABLISHED and passes the liveness check of this update.
Ticked(p) == UpdateStep(p) /\ Established(p) /\ check_if_alive(ucp[p], now)
\* With send_queue empty and more than remote_window packets staged, the
\* update moves exactly remote_window of them and leaves the rest, and
\* is_send_buffer_overflow tells whether remote_window or more are left.
SaturatingUpdate(p) ==
    LET s == ucp[p]
    IN (Ticked(p) /\ s.send_queue = <<>> /\ Len(s.send_buffer) > s.remote_window)
           => /\ Moved(p) = s.remote_window
              /\ Len(ucp'[p].send_buffer) = Len(s.send_buffer) - s.remote_window
              /\ is_send_buffer_overflow(ucp'[p])
                     <=> (Len(ucp'[p].send_buffer) >= s.remote_window)

\* C14 as stated: emission is gated by the window: from an empty send_queue
\* and N > W staged packets an update moves exactly W; and with k of the W
\* places in send_queue freed by acknowledgements, whichever packets they
\* removed, the next update moves exactly min(k, len(send_buffer)).
C14_Original ==
    [][\A p \in Peers :
          /\ SaturatingUpdate(p)
          /\ (Ticked(p) /\ Len(ucp[p].send_queue) <= ucp[p].remote_window) =>
                 Moved(p) = Min(ucp[p].remote_window - Len(ucp[p].send_queue),
                                Len(ucp[p].send_buffer))]_vars

\* C14 as amended: the places freed count only as far as the oldest packet
\* in flight allows: the update moves packets while the candidate's seq is
\* less than remote_window past the seq at the front of send_queue, which
\* is min(k, len(send_buffer)) when the acknowledgements removed the k
\* oldest packets, and less when an older packet stayed behind.
C14_WindowGatedEmission ==
    [][\A p \in Peers :
          /\ SaturatingUpdate(p)
          /\ Ticked(p) =>
                 LET s == ucp[p]
                     W == s.remote_window
                     gap == U32(Head(s.send_buffer).seq - Head(s.send_queue).seq)
                 IN Moved(p) =
                        IF s.send_buffer = <<>> THEN 0
                        ELSE IF s.send_queue = <<>> THEN Min(W, Len(s.send_buffer))
                        ELSE Min(Max(0, W - gap), Len(s.send_buffer))
          /\ (Ticked(p) /\ ucp[p].send_queue # <<>> /\ ucp[p].send_buffer # <<>>
                 /\ U32(Head(ucp[p].send_buffer).seq - Head(ucp[p].send_queue).seq)
                        = Len(ucp[p].send_queue)) =>
                 Moved(p) = Min(ucp[p].remote_window - Len(ucp[p].send_queue),
                                Len(ucp[p].send_buffer))]_vars

\* After an update a packet waits in send_buffer although send_queue has a
\* free place: an acknowledgement removed a packet and left an older one.
C14_Witness ==
    \E p \in Peers :
        /\ updated[p]
        /\ Established(p)
        /\ ucp[p].send_buffer # <<>>
        /\ ucp[p].send_queue # <<>>
        /\ Len(ucp[p].send_queue) < ucp[p].remote_window

\* The step is a call of update or process_packet of p abandoned at an
\* emit.
AbandonStep(p) == tally'[p].abandoned = tally[p].abandoned + 1

\* C15: when update or process_packet is abandoned at the await of an
\* emit, no packet is lost to the stream by it: every packet that was in
\* send_buffer or send_queue is still in one of them, and every ack_list
\* entry is still in ack_list or went out in an ACK datagram.
C15_AbandonedEmitKeepsState ==
    [][\A p \in Peers : AbandonStep(p) =>
          /\ SeqsOf(ucp[p].send_buffer) \cup SeqsOf(ucp[p].send_queue)
                 \subseteq SeqsOf(ucp'[p].send_buffer) \cup SeqsOf(ucp'[p].send_queue)
          /\ \A i \in 1..Len(ucp[p].ack_list) :
                 \/ \E j \in 1..Len(ucp'[p].ack_list) :
                        ucp'[p].ack_list[j] = ucp[p].ack_list[i]
                 \/ ucp[p].ack_list[i] \in AckEntries(Remote(p))']_vars

\* An update of an ESTABLISHED stream has been abandoned, after a datagram
\* of it went out, with a packet in flight and another still staged.
C15_Witness ==
    \E p \in Peers :
        /\ tally[p].abandoned = 1
        /\ Established(p)
        /\ updated[p]
        /\ ucp[p].send_queue # <<>>
        /\ ucp[p].send_buffer # <<>>
        /\ \E d \in net : d.from = p

\* C16: a packet from an address other than the stream's remote address
\* (in any state), or with a session_id other than the stream's (while
\* ACCEPTING, CONNECTING or ESTABLISHED), is rejected with no effect: the
\* stream is left as it is (state, una, alive_time, remote_window, rto,
\* the queues and ack_list) and nothing is emitted.
C16_ForgedPacketRejected ==
    \A p \in Peers : \A d \in net : \A from \in Addresses :
        \A sid \in ForgedIds \cup SessionIds :
            (parse_ok(d.pkt) /\ Forged(p, from, sid)) =>
                process_packet(ucp[p], ForgedPacket(d, sid), Remote(p), from, now, 0)
                    = Task(ucp[p], 0)

\* A DATA datagram is in flight to an ESTABLISHED stream that would take
\* it (it changes the stream when it is genuine): the forger has a packet
\* to copy that is not harmless.
C16_Witness ==
    \E d \in net :
        /\ d.pkt.cmd = CMD_DATA
        /\ Established(d.to)
        /\ Processed(ucp[d.to], d.to, parse(d.pkt)).una # ucp[d.to].una
        /\ Forged(d.to, "x", d.pkt.session_id)
        /\ \A sid \in ForgedIds : Forged(d.to, d.from, sid)

\* The step puts a HEARTBEAT of p on the wire.
EmitsHeartbeat(p) ==
    \E d \in net' \ net : d.from = p /\ d.pkt.cmd = CMD_HEARTBEAT
\* The instants at which the driver ticks, up to KeepaliveMillis.
TickInstants == {k * DRIVER_TICK_MILLIS : k \in 0..(KeepaliveMillis \div DRIVER_TICK_MILLIS)}
\* The instants at which a stream emits a HEARTBEAT.
BeatInstants == {t \in TickInstants : t > 0 /\ t % HEARTBEAT_INTERVAL_MILLIS = 0}

\* C17: two ESTABLISHED peers with no data and no loss, ticked every 10 ms
\* for 10 s: each emits a HEARTBEAT on the first tick at which
\* now - last_heartbeat >= HEARTBEAT_INTERVAL_MILLIS and on no other, which
\* makes exactly 4 in the 10 s; every HEARTBEAT an ESTABLISHED stream
\* receives evokes exactly one HEARTBEAT_ACK, with seq 0, whose receipt
\* sets alive_time to now; and on_broken never fires.
C17_HeartbeatKeepalive ==
    /\ [][\A p \in Peers : UpdateStep(p) =>
             /\ EmitsHeartbeat(p)
                    <=> (now - ucp[p].heartbeat >= HEARTBEAT_INTERVAL_MILLIS)
             /\ EmitsHeartbeat(p) <=> now \in BeatInstants]_vars
    /\ [](Cardinality(BeatInstants) = 4)
    /\ [](\A d \in net : Established(d.to) =>
             LET r == process_packet(ucp[d.to], parse(d.pkt), Remote(d.to), d.from,
                                     now, 0)
             IN /\ d.pkt.cmd = CMD_HEARTBEAT =>
                       /\ Len(r.out) = 1
                       /\ r.out[1].cmd = CMD_HEARTBEAT_ACK
                       /\ r.out[1].seq = 0
                /\ d.pkt.cmd = CMD_HEARTBEAT_ACK =>
                       r.out = <<>> /\ r.s.alive_time = now)
    /\ [](\A p \in Peers :
             tally[p].on_broken = 0 /\ check_if_alive(ucp[p], now))

\* The 10 s are over: both streams emitted their fourth HEARTBEAT at
\* 10000 ms and have had it acknowledged.
C17_Witness ==
    /\ now = KeepaliveMillis
    /\ net = {}
    /\ \A p \in Peers :
           /\ updated[p]
           /\ ucp[p].heartbeat = 4 * HEARTBEAT_INTERVAL_MILLIS
           /\ ucp[p].alive_time = now

\* The seqs of the packets of queue q that carry cmd.
SeqsWith(q, cmd) == {q[i].seq : i \in {k \in 1..Len(q) : q[k].cmd = cmd}}

\* C18: a stream moves from ACCEPTING to ESTABLISHED only on an ACK with a
\* payload of exactly 8 bytes whose echoed seq is the seq of its own
\* SYN_ACK; so an ESTABLISHED stream that accepted its connection holds
\* its SYN_ACK neither in send_queue nor in send_buffer, even when the
\* application called send while the stream was ACCEPTING.
C18_EstablishedBySynAckAck ==
    /\ [][\A p \in Peers :
             (ucp[p].state = "ACCEPTING" /\ ucp'[p].state = "ESTABLISHED") =>
                 \E d \in net :
                     /\ d.to = p
                     /\ d.pkt.cmd = CMD_ACK
                     /\ 4 * Len(d.pkt.words) + Len(d.pkt.data) = 8
                     /\ Len(d.pkt.words) = 2
                     /\ d.pkt.words[1] \in SeqsWith(ucp[p].send_queue, CMD_SYN_ACK)]_vars
    /\ [](\A p \in Peers : Established(p) =>
             /\ ~ HasCmd(ucp[p].send_queue, CMD_SYN_ACK)
             /\ ~ HasCmd(ucp[p].send_buffer, CMD_SYN_ACK))

\* The server is ESTABLISHED after its application sent while it was
\* ACCEPTING.
C18_Witness ==
    /\ Established("s")
    /\ early_send["s"]
    /\ app_sent["s"] > 0

\* The step is a call of p.send.
SendStep(p) == app_sent'[p] # app_sent[p]

\* C19: send writes the application's bytes into DATA packets only: it
\* fills the packet at the tail of send_buffer only when that packet is a
\* DATA packet with room left, it appends DATA packets only, and it leaves
\* every SYN and SYN_ACK waiting in send_buffer as it is, also when it is
\* called right after connecting() or accepting(), before the next update.
C19_SendWritesDataOnly ==
    [][\A p \in Peers : SendStep(p) =>
          LET sb == ucp[p].send_buffer
              after == ucp'[p].send_buffer
          IN /\ Len(after) >= Len(sb)
             /\ \A i \in 1..Len(sb) :
                    \/ after[i] = sb[i]
                    \/ /\ i = Len(sb)
                       /\ sb[i].cmd = CMD_DATA
                       /\ remaining_load(sb[i]) > 0
             /\ \A i \in (Len(sb) + 1)..Len(after) : after[i].cmd = CMD_DATA
             /\ ucp'[p].send_queue = ucp[p].send_queue]_vars

\* send has been called while the SYN or SYN_ACK of the handshake was
\* still waiting in send_buffer.
C19_Witness ==
    \E p \in Peers :
        /\ early_send[p]
        /\ \/ HasCmd(ucp[p].send_buffer, CMD_SYN)
           \/ HasCmd(ucp[p].send_buffer, CMD_SYN_ACK)

\* Stream s with nothing in flight, after send has staged three full DATA
\* packets and an update under a window of three has emitted them: seqs
\* S, S + 1, S + 2 in send_queue.
ThreeInFlight(s, t) ==
    LET clean == [s EXCEPT !.send_queue = <<>>, !.send_buffer = <<>>,
                           !.remote_window = 3]
        staged == send(clean, [i \in 1..(3 * PayloadCap) |-> i], t)
    IN send_pending_packets(Task(staged, 0), t).s

\* C20: the skip_times of a send_queue packet q is raised only by an ACK
\* entry that acknowledges a packet in flight later than q and carries a
\* timestamp >= q.timestamp, and then by one; an entry for an earlier or
\* already removed seq raises no skip_times.  With S, S + 1, S + 2 in
\* flight and S + 1 lost, the entries (S, ts), (S + 2, ts) remove S and
\* S + 2 and leave S + 1 with skip_times 1.
C20_SkipTimesOnLaterAckOnly ==
    \A p \in Peers : Established(p) =>
        /\ \A a \in AckEntries(p) :
               LET sq == ucp[p].send_queue
                   after == process_an_ack(ucp[p], a[1], a[2], now).s.send_queue
               IN \A i \in 1..Len(sq) : \A j \in 1..Len(after) :
                      (after[j].seq = sq[i].seq
                           /\ after[j].skip_times # sq[i].skip_times) =>
                          /\ after[j].skip_times = sq[i].skip_times + 1
                          /\ a[1] \in SeqsOf(sq)
                          /\ I32(a[1] - sq[i].seq) > 0
                          /\ a[2] >= sq[i].timestamp
        /\ LET s == ThreeInFlight(ucp[p], now)
               S == s.send_queue[1].seq
               ts == timestamp(s, now)
               one == process_an_ack(s, S, ts, now).s
               two == process_an_ack(one, U32(S + 2), ts, now).s
           IN /\ Len(s.send_queue) = 3
              /\ Len(two.send_queue) = 1
              /\ two.send_queue[1].seq = U32(S + 1)
              /\ two.send_queue[1].skip_times = 1

\* The network has duplicated an ACK datagram and a packet in flight has
\* had its skip_times raised.
C20_Witness ==
    /\ dups = MaxDup
    /\ \E p \in Peers : \E i \in 1..Len(ucp[p].send_queue) :
           /\ Established(p)
           /\ ucp[p].send_queue[i].skip_times >= 1

\* The instants at which the driver can next call p.update: now, when it
\* has not done so at this instant, after DRIVER_TICK_MILLIS and after
\* TickMillis.
ScanTimes(p) ==
    (IF updated[p] THEN {} ELSE {now})
        \cup {now + DRIVER_TICK_MILLIS, now + TickMillis}

\* The datagrams of out that carry the packet with seq x and command cmd.
Emits(out, x, cmd) == {i \in 1..Len(out) : out[i].seq = x /\ out[i].cmd = cmd}

\* Packet q of send_queue is due at stream time ts under rto.
Due(q, ts, rto) == U32(ts - q.timestamp) >= rto \/ q.skip_times >= 2

\* What the retransmit scan of an update of stream s at time t, a task r
\* that ran to its end, must have done to send_queue.
ScanOf(s, r, t) ==
    LET old == s.send_queue
        new_q == r.s.send_queue
        ts == timestamp(s, t)
    IN /\ Len(new_q) >= Len(old)
       /\ \A i \in 1..Len(old) :
              /\ new_q[i].seq = old[i].seq
              /\ IF Due(old[i], ts, s.rto)
                 THEN /\ Cardinality(Emits(r.out, old[i].seq, old[i].cmd)) = 1
                      /\ new_q[i].skip_times = 0
                      /\ new_q[i].xmit = old[i].xmit + 1
                      /\ new_q[i].timestamp = ts
                      /\ \A k \in Emits(r.out, old[i].seq, old[i].cmd) :
                             r.out[k] = pack(new_q[i])
                 ELSE /\ Emits(r.out, old[i].seq, old[i].cmd) = {}
                      /\ new_q[i] = old[i]
       \* a packet first emitted in this update is emitted once, as it was made
       /\ \A i \in (Len(old) + 1)..Len(new_q) :
              /\ Cardinality(Emits(r.out, new_q[i].seq, new_q[i].cmd)) = 1
              /\ new_q[i].xmit = 0
              /\ new_q[i].skip_times = 0
              /\ new_q[i].timestamp = ts

\* C21: in an update that passes the liveness check, a packet of
\* send_queue is emitted again if and only if the stream time minus its
\* timestamp is at least rto (equal included) or its skip_times is at
\* least 2; a packet emitted again keeps its seq and its place in
\* send_queue, has skip_times 0, xmit one higher and the timestamp of the
\* update, every other packet of send_queue is left as it was, and a packet
\* first emitted in this update is emitted once only.
C21_RetransmitScan ==
    \A p \in Peers : \A t \in ScanTimes(p) :
        check_if_alive(ucp[p], t) =>
            ScanOf(ucp[p], update(ucp[p], t, TRUE, 0), t)

\* A stream whose next update finds in send_queue a packet that is exactly
\* rto old and has not been skipped twice, and emits it again.
C21_Witness ==
    \E p \in Peers : \E t \in ScanTimes(p) :
        /\ check_if_alive(ucp[p], t)
        /\ \E i \in 1..Len(ucp[p].send_queue) :
               LET q == ucp[p].send_queue[i]
               IN /\ U32(timestamp(ucp[p], t) - q.timestamp) = ucp[p].rto
                  /\ q.skip_times < 2
                  /\ ucp[p].rto > 0
                  /\ Emits(update(ucp[p], t, TRUE, 0).out, q.seq, q.cmd) # {}

\* The ACK datagrams of out, in order.
RECURSIVE AcksOf(_)
AcksOf(out) ==
    IF out = <<>> THEN <<>>
    ELSE (IF Head(out).cmd = CMD_ACK THEN <<Head(out)>> ELSE <<>>)
             \o AcksOf(Tail(out))

\* The DATA packets that can reach p: the ones in flight, and one for
\* every seq p holds or has passed.
DataArrivals(p) ==
    {parse(d.pkt) : d \in {e \in net : e.to = p /\ e.pkt.cmd = CMD_DATA}}
        \cup {DataPacket(p, x) : x \in DataSeqs(p)}

\* C22: every DATA packet an ESTABLISHED stream processes, a duplicate or
\* one below una included, appends exactly one (seq, timestamp) entry to
\* ack_list; an update that passes the liveness check emits every pending
\* entry exactly once, in arrival order, in ACK packets with seq 0 whose
\* payloads are whole 8-byte pairs, none when nothing is pending, and
\* leaves ack_list empty.
C22_AckEveryData ==
    \A p \in Peers :
        /\ Established(p) =>
               \A packet \in DataArrivals(p) :
                   Processed(ucp[p], p, packet).ack_list =
                       Append(ucp[p].ack_list, <<packet.seq, packet.timestamp>>)
        /\ \A t \in ScanTimes(p) :
               check_if_alive(ucp[p], t) =>
                   LET r == update(ucp[p], t, TRUE, 0)
                       acks == AcksOf(r.out)
                   IN /\ r.s.ack_list = <<>>
                      /\ AckWords(r.out) = Flat(ucp[p].ack_list)
                      /\ \A i \in 1..Len(acks) :
                             /\ acks[i].seq = 0
                             /\ acks[i].data = <<>>
                             /\ acks[i].words # <<>>
                             /\ (4 * Len(acks[i].words)) % 8 = 0

\* An ESTABLISHED stream about to be ticked holds three or more pending
\* entries, two of them for the same seq, and its update sends them in more
\* than one ACK packet, one of which carries more than one pair.
C22_Witness ==
    \E p \in Peers :
        /\ Established(p)
        /\ ~ updated[p]
        /\ check_if_alive(ucp[p], now)
        /\ Len(ucp[p].ack_list) >= 3
        /\ \E i, j \in 1..Len(ucp[p].ack_list) :
               i < j /\ ucp[p].ack_list[i][1] = ucp[p].ack_list[j][1]
        /\ LET acks == AcksOf(update(ucp[p], now, TRUE, 0).out)
           IN /\ Len(acks) >= 2
              /\ \E i \in 1..Len(acks) : Len(acks[i].words) >= 4

\* The edges of the state machine.
Edge(a, b) ==
    \/ a = b
    \/ <<a, b>> \in {<<"NONE", "ACCEPTING">>, <<"NONE", "CONNECTING">>,
                     <<"ACCEPTING", "ESTABLISHED">>,
                     <<"CONNECTING", "ESTABLISHED">>}

\* Every packet in flight, as it would reach stream p from p's remote
\* address: the peer's packets and p's own, a repeated SYN or SYN_ACK
\* included.
Arrivals == {parse(d.pkt) : d \in {e \in net : parse_ok(e.pkt)}}

\* C23: the state of a stream moves only along NONE -> ACCEPTING (a SYN
\* processed in NONE), NONE -> CONNECTING (connecting), ACCEPTING ->
\* ESTABLISHED and CONNECTING -> ESTABLISHED: no packet, whatever its
\* command, and no send, recv or update moves a stream out of
\* ESTABLISHED, back, or between ACCEPTING and CONNECTING; a packet that
\* is not a SYN leaves a stream in NONE as it is; send, recv and update
\* leave the state as it is.
C23_StateEdges ==
    /\ [](\A p \in Peers :
            LET s == ucp[p]
            IN /\ \A packet \in Arrivals :
                      LET after == Processed(s, p, packet)
                      IN /\ Edge(s.state, after.state)
                         /\ after.state # "CONNECTING" \/ s.state = "CONNECTING"
                         /\ s.state = "NONE" =>
                                IF is_syn(packet) THEN after.state = "ACCEPTING"
                                ELSE after = s
               /\ \A n \in SendLens : send(s, AppBuf(p, n), now).state = s.state
               /\ \A n \in RecvLens : recv(s, n).s.state = s.state
               /\ \A t \in ScanTimes(p) : \A keep \in BOOLEAN :
                      update(s, t, keep, 0).s.state = s.state)
    /\ [][\A p \in Peers :
             /\ Edge(ucp[p].state, ucp'[p].state)
             /\ (ucp[p].state = "NONE" /\ ucp'[p].state = "ACCEPTING") =>
                    \E d \in net : d.to = p /\ is_syn(d.pkt)
             /\ (ucp[p].state = "NONE" /\ ucp'[p].state = "CONNECTING") =>
                    ucp'[p] = connecting(ucp[p], ucp'[p].session_id, now)]_vars

\* A repeated SYN is in flight to a stream that is ESTABLISHED, and a
\* repeated SYN_ACK to the other, ESTABLISHED as well.
C23_Witness ==
    /\ \E d \in net : Established(d.to) /\ is_syn(d.pkt)
    /\ \E d \in net : Established(d.to) /\ d.pkt.cmd = CMD_SYN_ACK

\* The SYN_ACK datagrams with a payload of 8 bytes in flight to p.
SynAcks(p) ==
    {d \in net : /\ d.to = p
                 /\ d.pkt.cmd = CMD_SYN_ACK
                 /\ payload(parse(d.pkt)) = 8}

\* An ESTABLISHED stream answers a SYN_ACK with one ACK that echoes the
\* SYN_ACK's seq and timestamp, and keeps its una and its state.
AnswersSynAck ==
    \A p \in Peers : Established(p) =>
        \A d \in SynAcks(p) :
            LET r == process_packet(ucp[p], parse(d.pkt), Remote(p), d.from, now, 0)
            IN /\ Len(r.out) = 1
               /\ r.out[1].cmd = CMD_ACK
               /\ r.out[1].seq = 0
               /\ r.out[1].words = <<d.pkt.seq, d.pkt.timestamp>>
               /\ r.out[1].data = <<>>
               /\ r.s.una = ucp[p].una
               /\ r.s.state = ucp[p].state

BothEstablished == Established("c") /\ Established("s")

\* C24: when the network loses the SYN, the SYN_ACK or the handshake ACK,
\* delivers what is retransmitted in the end, and both sides keep being
\* ticked, both streams are ESTABLISHED in the end, and already at any
\* instant at which every datagram has been delivered and both sides have
\* been ticked; and an ESTABLISHED
\* stream answers every SYN_ACK with a payload of 8 bytes with an ACK
\* that echoes the SYN_ACK's seq and timestamp, keeping its una and state.
C24_HandshakeRecovery ==
    /\ [](lost >= 1 /\ C3_Settled => BothEstablished)
    /\ (lost >= 1) ~> BothEstablished
    /\ []AnswersSynAck

\* The clock has run out, the network has lost datagrams, and the
\* handshake is not over: the accepting stream still retransmits a SYN_ACK
\* that send has written into.
C24_Witness ==
    /\ lost >= 1
    /\ now = (RecoverTicks + 2 * MaxLoss) * TickMillis
    /\ ~ BothEstablished
    /\ \E i \in 1..Len(ucp["s"].send_queue) :
           /\ ucp["s"].send_queue[i].cmd = CMD_SYN_ACK
           /\ ucp["s"].send_queue[i].data # <<>>
====
